---- MODULE Spec2Model ----
(***************************************************************************)
(* ClaimResolver of the queue service: resolution of expired claims from   *)
(* the advisory messages {taskId, runId, takenUntil} of the claim queue.   *)
(*                                                                         *)
(* One task entity is modelled.  runId is 0-based as in the source, so     *)
(* the run with id r is runs[r + 1] of the TLA+ sequence.  Dates are       *)
(* naturals; 0 is new Date(0), the cleared takenUntil.                      *)
(***************************************************************************)
EXTENDS Integers, Sequences, FiniteSets, TLC

\* ------------------------------------------------------------------ bounds
MaxRetries == 2      \* largest initial task.retriesLeft
MaxOps == 2          \* operations of other actors on the task, and clock ticks
MaxDeliveries == 2   \* deliveries of advisory messages to handleMessage
MaxFailed == 12      \* failed iterations of the driver, consecutive or not
parallelism == 2     \* options.parallelism: poll loops of one iteration
MaxBatch == 3        \* messages returned by one pollClaimQueue()
MaxPolls == 2        \* calls of poll()

\* ------------------------------------------------------- program constants
maxFailures == 10

Handlers == {1, 2}
Loops == 1..parallelism

VARIABLES
  task,      \* the stored task entity, with its etag
  now,       \* Date.now()
  queue,     \* advisory messages in the claim queue (not yet removed)
  hs,        \* handleMessage invocations: position, message, loaded entity, history
  effects,   \* per advisory triple: what was published and appended for it
  delivered, \* number of deliveries of advisory messages so far
  ops,       \* number of operations of other actors so far
  iter,      \* Iterate: phase, state of the poll loops, failed iterations so far
  failures,  \* Iterate: consecutive failed iterations
  alerts,    \* monitor.alert calls
  exited,    \* process.exit(1) was called
  poller     \* poll(): its messages, `failed`, the warnings and the poll records

vars == <<task, now, queue, hs, effects, delivered, ops, iter, failures, alerts, exited,
          poller>>
resolverVars == <<task, now, queue, hs, effects, delivered, ops>>
driverVars == <<iter, failures, alerts, exited, poller>>

\* ------------------------------------------------------------ data model
\* A run is appended by another actor, or by the resolver after a claim: there
\* are at most 1 + MaxOps runs, and the claimed ones are among the first MaxOps.
RunIds == 0..MaxOps
Msgs == [runId : 0..(MaxOps - 1), takenUntil : 1..MaxOps]
NoMsg == [runId |-> 0, takenUntil |-> 0]

NewRun(reason) ==
  [state |-> "pending", reasonCreated |-> reason, reasonResolved |-> "none",
   takenUntil |-> 0]

NoTask == [runs |-> <<>>, retries |-> 0, retriesLeft |-> 0, takenUntil |-> 0,
           deadline |-> 0, etag |-> 0]

NoEffects ==
  [putPendingMessage |-> 0, taskPending |-> 0,
   resolveTask |-> 0, taskException |-> 0, retryRuns |-> 0, decrements |-> 0,
   modifyFailed |-> 0]

IdleHandler ==
  [pc |-> "idle", msg |-> NoMsg, task |-> NoTask, calls |-> <<>>,
   err |-> "none", owner |-> FALSE, reclaimed |-> FALSE, late |-> FALSE,
   reported |-> <<>>]

HasRun(t, runId) == runId + 1 <= Len(t.runs)
Run(t, runId) == t.runs[runId + 1]
Running(t) == {r \in RunIds : HasRun(t, r) /\ Run(t, r).state = "running"}
IsClaimExpired(t, runId) ==
  /\ HasRun(t, runId)
  /\ Run(t, runId).state = "exception"
  /\ Run(t, runId).reasonResolved = "claim-expired"

\* Largest takenUntil handed out so far
LastTaken(t) ==
  LET S == {t.runs[i].takenUntil : i \in 1..Len(t.runs)} \cup {0}
  IN  CHOOSE x \in S : \A y \in S : y <= x

\* --------------------------------------------------- handleMessage, pure parts
\* Mutant: the resolution clears task.takenUntil, as a resolution by a worker
\* does
ResolvedClearsTakenUntil(t, runId) ==
  [t EXCEPT !.runs[runId + 1].state = "exception",
            !.runs[runId + 1].reasonResolved = "claim-expired",
            !.takenUntil = 0]

\* Resolution of run runId of t as exception/claim-expired
Resolved(t, runId) ==
  [t EXCEPT !.runs[runId + 1].state = "exception",
            !.runs[runId + 1].reasonResolved = "claim-expired"]

\* Mutant: a retry run is added, and retriesLeft is left as it was
RetriedNoDecrement(t) ==
  [t EXCEPT !.runs = Append(@, NewRun("retry"))]

\* A retry run is added and paid for
Retried(t) ==
  [t EXCEPT !.retriesLeft = @ - 1, !.runs = Append(@, NewRun("retry"))]

\* Mutant: a modifier that does not look at what an earlier attempt did (no
\* return for a run that is not running, none for a run that is not the last)
ModifierNotIdempotent(t, runId, takenUntil, nw) ==
  IF ~HasRun(t, runId) THEN t
  ELSE IF Run(t, runId).takenUntil # takenUntil THEN t
  ELSE IF t.deadline <= nw THEN t
  ELSE IF t.retriesLeft > 0 THEN Retried(Resolved(t, runId))
  ELSE Resolved(t, runId)

\* Mutant: a modifier that adds the retry run without asking for retriesLeft
ModifierNoRetryCheck(t, runId, takenUntil, nw) ==
  IF ~HasRun(t, runId) THEN t
  ELSE IF Run(t, runId).state # "running" \/ Run(t, runId).takenUntil # takenUntil
  THEN t
  ELSE IF t.deadline <= nw THEN t
  ELSE IF Len(t.runs) - 1 # runId THEN Resolved(t, runId)
  ELSE Retried(Resolved(t, runId))

\* Mutant: a modifier that adds the retry run also when the run is not the last
ModifierNoLastRunCheck(t, runId, takenUntil, nw) ==
  IF ~HasRun(t, runId) THEN t
  ELSE IF Run(t, runId).state # "running" \/ Run(t, runId).takenUntil # takenUntil
  THEN t
  ELSE IF t.deadline <= nw THEN t
  ELSE IF t.retriesLeft > 0 THEN Retried(Resolved(t, runId))
  ELSE Resolved(t, runId)

\* Mutant: a modifier that does not look at the deadline
ModifierNoDeadlineCheck(t, runId, takenUntil, nw) ==
  IF ~HasRun(t, runId) THEN t
  ELSE IF Run(t, runId).state # "running" \/ Run(t, runId).takenUntil # takenUntil
  THEN t
  ELSE IF Len(t.runs) - 1 # runId THEN Resolved(t, runId)
  ELSE IF t.retriesLeft > 0 THEN Retried(Resolved(t, runId))
  ELSE Resolved(t, runId)

\* Mutant: a modifier that does not ask whether the run is running
ModifierNoRunningCheck(t, runId, takenUntil, nw) ==
  IF ~HasRun(t, runId) THEN t
  ELSE IF Run(t, runId).takenUntil # takenUntil THEN t
  ELSE IF t.deadline <= nw THEN t
  ELSE IF Len(t.runs) - 1 # runId THEN Resolved(t, runId)
  ELSE IF t.retriesLeft > 0 THEN Retried(Resolved(t, runId))
  ELSE Resolved(t, runId)

\* The modifier passed to task.modify: a function of the entity it is given,
\* the message and Date.now().
Modifier(t, runId, takenUntil, nw) ==
  IF ~HasRun(t, runId) THEN t
  ELSE IF Run(t, runId).state # "running" \/ Run(t, runId).takenUntil # takenUntil
  THEN t
  ELSE IF t.deadline <= nw THEN t
  ELSE IF Len(t.runs) - 1 # runId THEN Resolved(t, runId)
  ELSE IF t.retriesLeft > 0 THEN Retried(Resolved(t, runId))
  ELSE Resolved(t, runId)

\* Mutant: a modifier that reports nothing
ModifierReportsNothing(t, runId, takenUntil, nw) == <<>>

\* The calls of this.monitor.reportError made by the modifier: one, when the
\* run it resolves is not the last run.  The call is not awaited.
ModifierReports(t, runId, takenUntil, nw) ==
  IF /\ HasRun(t, runId)
     /\ Run(t, runId).state = "running" /\ Run(t, runId).takenUntil = takenUntil
     /\ nw < t.deadline
     /\ Len(t.runs) - 1 # runId
  THEN <<"reportError">>
  ELSE <<>>

\* The check after task.modify: the run was resolved claim-expired and at most
\* one run follows it.
OwnsTransition(t, runId) ==
  /\ HasRun(t, runId)
  /\ ~(Len(t.runs) - 1 > runId + 1)
  /\ Run(t, runId).state = "exception"
  /\ Run(t, runId).reasonResolved = "claim-expired"

\* A new run was created, it is the last one, and it is a pending retry.
IsRetryPath(t, runId) ==
  /\ HasRun(t, runId + 1)
  /\ Len(t.runs) - 1 = runId + 1
  /\ Run(t, runId + 1).state = "pending"
  /\ Run(t, runId + 1).reasonCreated = "retry"

\* Mutant: a plain return, without remove(), when the run is not resolved
AfterModifyNoRemove(t, runId) ==
  IF ~OwnsTransition(t, runId) THEN "done"
  ELSE IF IsRetryPath(t, runId) THEN "retry"
  ELSE "terminal"

\* Mutant: the fan-out without the check of the run after task.modify
AfterModifyNoCheck(t, runId) ==
  IF IsRetryPath(t, runId) THEN "retry" ELSE "terminal"

\* Where handleMessage continues once task.modify has returned.
AfterModify(t, runId) ==
  IF ~OwnsTransition(t, runId) THEN "remove"
  ELSE IF IsRetryPath(t, runId) THEN "retry"
  ELSE "terminal"

\* ------------------------------------------------------------- the task store
\* Task.query({taskId, takenUntil}, {matchRow: 'exact', limit: 1})
QueryMatches(stored, takenUntil) == stored.takenUntil = takenUntil

\* Entity.modify: nothing is written when the modifier changed nothing; a
\* changed entity is written only if the etag is still the stored one.
CasOutcome(loaded, modified, stored) ==
  IF modified = loaded THEN "unchanged"
  ELSE IF loaded.etag = stored.etag THEN "written"
  ELSE "conflict"

Written(modified) == [modified EXCEPT !.etag = @ + 1]

\* ---------------------------------------------------------------- bookkeeping
\* Mutant: a failure that is swallowed, handleMessage going on to remove()
FailSwallowed(h, call) == [hs EXCEPT ![h].pc = "remove", ![h].task = NoTask]

Bump(m, field, n) == [effects EXCEPT ![m][field] = @ + n]
Step(h, pc) == [hs EXCEPT ![h].pc = pc]
Fail(h, call) == [hs EXCEPT ![h].pc = "failed", ![h].err = call, ![h].task = NoTask]

Init ==
  /\ \E k \in 0..MaxRetries :
       task = [runs |-> <<NewRun("scheduled")>>, retries |-> k, retriesLeft |-> k,
               takenUntil |-> 0, deadline |-> 1, etag |-> 1]
  /\ now = 0
  /\ queue = {}
  /\ hs = [h \in Handlers |-> IdleHandler]
  /\ effects = [m \in Msgs |-> NoEffects]
  /\ delivered = 0
  /\ ops = 0
  /\ iter = [phase |-> "waiting", polls |-> [i \in Loops |-> "none"], failed |-> 0]
  /\ failures = 0
  /\ alerts = 0
  /\ exited = FALSE
  /\ poller = [phase |-> "idle", messages |-> <<>>, failed |-> 0, warnings |-> 0,
               logs |-> <<>>, polls |-> 0, rejects |-> 0]

\* ---------------------------------------------- other actors on the task entity
\* One more operation of another actor, or one more tick of the clock.
Op ==
  /\ ops < MaxOps
  /\ ops' = ops + 1

\* claimTask: the pending last run becomes running; takenUntil is set on the run
\* and on the task, and an advisory message is put in the claim queue.
ClaimTask ==
  /\ Op
  /\ Len(task.runs) > 0
  /\ task.runs[Len(task.runs)].state = "pending"
  /\ Running(task) = {}
  /\ LET t == LastTaken(task) + 1
         r == Len(task.runs) - 1
     IN  /\ task' = [task EXCEPT !.runs[r + 1].state = "running",
                                 !.runs[r + 1].takenUntil = t,
                                 !.takenUntil = t,
                                 !.etag = @ + 1]
         /\ queue' = queue \cup {[runId |-> r, takenUntil |-> t]}
  /\ UNCHANGED <<now, hs, effects, delivered, driverVars>>

\* reclaimTask: takenUntil of the running run and of the task is advanced, and
\* a new advisory message is put in the claim queue.
ReclaimTask(r) ==
  /\ Op
  /\ r \in Running(task)
  /\ LET t == LastTaken(task) + 1
     IN  /\ task' = [task EXCEPT !.runs[r + 1].takenUntil = t,
                                 !.takenUntil = t,
                                 !.etag = @ + 1]
         /\ queue' = queue \cup {[runId |-> r, takenUntil |-> t]}
  /\ hs' = [h \in Handlers |->
              IF hs[h].pc \in {"modify", "reload"} /\ hs[h].msg.runId = r
              THEN [hs[h] EXCEPT !.reclaimed = TRUE]
              ELSE hs[h]]
  /\ UNCHANGED <<now, effects, delivered, driverVars>>

\* The worker resolves its run; task.takenUntil is cleared.
ResolveRun(r) ==
  /\ Op
  /\ r \in Running(task)
  /\ task' = [task EXCEPT !.runs[r + 1].state = "completed",
                          !.runs[r + 1].reasonResolved = "completed",
                          !.takenUntil = 0,
                          !.etag = @ + 1]
  /\ UNCHANGED <<now, queue, hs, effects, delivered, driverVars>>

\* Another actor appends a run.
AppendRun ==
  /\ Op
  /\ task' = [task EXCEPT !.runs = Append(@, NewRun("rerun")), !.etag = @ + 1]
  /\ UNCHANGED <<now, queue, hs, effects, delivered, driverVars>>

\* Time passes; the clock is followed up to the deadline of the task.
Tick ==
  /\ Op
  /\ now < task.deadline
  /\ now' = now + 1
  /\ UNCHANGED <<task, queue, hs, effects, delivered, driverVars>>

\* ------------------------------------------------------ handleMessage, by step
\* poll() hands a message of the claim queue to handleMessage.  A message that
\* was not removed is delivered again, also while an earlier delivery is still
\* being handled.  Invocations are interchangeable: the first free one is used.
Free(h) == hs[h].pc \in {"idle", "done", "failed"}

Deliver(h, m) ==
  /\ Free(h)
  /\ \A g \in Handlers : g < h => ~Free(g)
  /\ m \in queue
  /\ delivered < MaxDeliveries
  /\ hs' = [hs EXCEPT ![h] = [IdleHandler EXCEPT !.pc = "query", !.msg = m,
                                                 !.late = (task.deadline <= now)]]
  /\ delivered' = delivered + 1
  /\ UNCHANGED <<task, now, queue, effects, ops, driverVars>>

\* Mutant: a load that is not conditional on takenUntil
QueryNotConditional(h) ==
  /\ hs[h].pc = "query"
  /\ \/ hs' = Fail(h, "query")
     \/ hs' = [hs EXCEPT ![h].pc = "modify", ![h].task = task]
  /\ UNCHANGED <<task, now, queue, effects, ops, delivered, driverVars>>

\* await this.Task.query(...), then the check of its result
Query(h) ==
  /\ hs[h].pc = "query"
  /\ \/ hs' = Fail(h, "query")
     \/ /\ ~QueryMatches(task, hs[h].msg.takenUntil)
        /\ hs' = Step(h, "remove")
     \/ /\ QueryMatches(task, hs[h].msg.takenUntil)
        /\ hs' = [hs EXCEPT ![h].pc = "modify", ![h].task = task]
  /\ UNCHANGED <<task, now, queue, effects, ops, delivered, driverVars>>

\* The conditional load did not work: an entity with another takenUntil is
\* returned; handleMessage reports the error and removes the message.
QueryUnconditional(h) ==
  /\ hs[h].pc = "query"
  /\ task.takenUntil # hs[h].msg.takenUntil
  /\ hs' = [hs EXCEPT ![h].pc = "report", ![h].task = task]
  /\ UNCHANGED <<task, now, queue, effects, ops, delivered, driverVars>>

\* await task.modify(modifier): one application of the modifier to the loaded
\* entity and the conditional write of the result; then, when modify returned,
\* the inspection of the entity that chooses how handleMessage goes on.
Modify(h) ==
  /\ hs[h].pc = "modify"
  /\ LET m == hs[h].msg
         loaded == hs[h].task
         modified == Modifier(loaded, m.runId, m.takenUntil, now)
         outcome == CasOutcome(loaded, modified, task)
         reports == ModifierReports(loaded, m.runId, m.takenUntil, now)
     IN  \/ /\ hs' = Fail(h, "modify")
            /\ effects' = Bump(m, "modifyFailed", 1)
            /\ UNCHANGED task
         \/ /\ outcome = "unchanged"
            /\ hs' = [hs EXCEPT ![h].pc = AfterModify(loaded, m.runId),
                                 ![h].task = NoTask]
            /\ UNCHANGED <<task, effects>>
         \/ /\ outcome = "conflict"
            /\ hs' = [hs EXCEPT ![h].pc = "reload", ![h].calls = @ \o reports]
            /\ UNCHANGED <<task, effects>>
         \/ /\ outcome = "written"
            /\ task' = Written(modified)
            /\ hs' = [hs EXCEPT
                 ![h].pc = AfterModify(modified, m.runId),
                 ![h].task = NoTask,
                 ![h].calls = @ \o reports \o <<"modify">>,
                 ![h].owner = /\ Run(loaded, m.runId).state = "running"
                              /\ IsClaimExpired(modified, m.runId)]
            /\ effects' = [effects EXCEPT
                 ![m].retryRuns = @ + (Len(modified.runs) - Len(loaded.runs)),
                 ![m].decrements = @ + (loaded.retriesLeft - modified.retriesLeft)]
  /\ UNCHANGED <<now, queue, ops, delivered, driverVars>>

\* Entity.modify reloads the entity after a conflict and applies the modifier
\* again.
Reload(h) ==
  /\ hs[h].pc = "reload"
  /\ \/ /\ hs' = Fail(h, "modify")
        /\ effects' = Bump(hs[h].msg, "modifyFailed", 1)
     \/ /\ hs' = [hs EXCEPT ![h].pc = "modify", ![h].task = task]
        /\ UNCHANGED effects
  /\ UNCHANGED <<task, now, queue, ops, delivered, driverVars>>

\* return remove(), as the last call of handleMessage after the calls `made`:
\* the message is deleted from the claim queue, or the deletion is rejected and
\* handleMessage fails with it.
Remove(h, made) ==
  \/ /\ hs' = [hs EXCEPT ![h].pc = "done", ![h].calls = @ \o made \o <<"remove">>]
     /\ queue' = queue \ {hs[h].msg}
  \/ /\ hs' = [hs EXCEPT ![h].pc = "failed", ![h].err = "remove",
                         ![h].calls = @ \o made \o <<"remove">>]
     /\ UNCHANGED queue

\* handleMessage fails in `call`, after the calls `made`
Throw(h, made, call) ==
  /\ hs' = [hs EXCEPT ![h].pc = "failed", ![h].err = call, ![h].calls = @ \o made]
  /\ UNCHANGED queue

\* Mutant: a plain return where handleMessage has `return remove()`
AcknowledgeForgets(h) ==
  /\ hs[h].pc = "remove"
  /\ hs' = [hs EXCEPT ![h].pc = "done"]
  /\ UNCHANGED <<task, now, queue, effects, ops, delivered, driverVars>>

\* The returns of handleMessage that publish nothing: no entity was loaded, or
\* the run is not resolved claim-expired by this task.modify.
Acknowledge(h) ==
  /\ hs[h].pc = "remove"
  /\ Remove(h, <<>>)
  /\ UNCHANGED <<task, now, effects, ops, delivered, driverVars>>

\* Mutant: an error that carries the takenUntil of the message only
MismatchErrorNoTask(t, takenUntil) == <<takenUntil>>

\* The error of the mismatch: err.taskTakenUntil and err.messageTakenUntil
MismatchError(t, takenUntil) == <<t.takenUntil, takenUntil>>

\* await this.monitor.reportError(err); return remove()
ReportMismatch(h) ==
  /\ hs[h].pc = "report"
  /\ LET err == MismatchError(hs[h].task, hs[h].msg.takenUntil)
         told == [hs[h] EXCEPT !.task = NoTask, !.reported = err,
                               !.calls = @ \o <<"reportError", "remove">>]
     IN  \/ /\ hs' = Fail(h, "reportError")
            /\ UNCHANGED queue
         \/ /\ hs' = [hs EXCEPT ![h] = [told EXCEPT !.pc = "done"]]
            /\ queue' = queue \ {hs[h].msg}
         \/ /\ hs' = [hs EXCEPT ![h] = [told EXCEPT !.pc = "failed", !.err = "remove"]]
            /\ UNCHANGED queue
  /\ UNCHANGED <<task, now, effects, ops, delivered, driverVars>>

\* Mutant: a retry path that waits for both calls to settle and removes the
\* message whatever their outcome
RetryPathSettled(h) ==
  /\ hs[h].pc = "retry"
  /\ \E put \in BOOLEAN, pub \in BOOLEAN :
       LET m == hs[h].msg
           made == (IF put THEN <<"putPendingMessage">> ELSE <<>>)
                   \o (IF pub THEN <<"taskPending">> ELSE <<>>)
       IN  /\ effects' = [effects EXCEPT
                ![m].putPendingMessage = @ + (IF put THEN 1 ELSE 0),
                ![m].taskPending = @ + (IF pub THEN 1 ELSE 0)]
           /\ Remove(h, made)
  /\ UNCHANGED <<task, now, ops, delivered, driverVars>>

\* The retry path: await Promise.all([putPendingMessage(task, runId + 1),
\* taskPending(...)]): both calls are started, each one succeeds or rejects;
\* then remove().
RetryPath(h) ==
  /\ hs[h].pc = "retry"
  /\ \E put \in BOOLEAN, pub \in BOOLEAN :
       LET m == hs[h].msg
           made == (IF put THEN <<"putPendingMessage">> ELSE <<>>)
                   \o (IF pub THEN <<"taskPending">> ELSE <<>>)
       IN  /\ effects' = [effects EXCEPT
                ![m].putPendingMessage = @ + (IF put THEN 1 ELSE 0),
                ![m].taskPending = @ + (IF pub THEN 1 ELSE 0)]
           /\ IF put /\ pub THEN Remove(h, made)
              ELSE Throw(h, made, IF put THEN "taskPending" ELSE "putPendingMessage")
  /\ UNCHANGED <<task, now, ops, delivered, driverVars>>

\* Mutant: a terminal path that publishes taskException without telling the
\* dependency tracker
TerminalPathNoTracker(h) ==
  /\ hs[h].pc = "terminal"
  /\ LET m == hs[h].msg
     IN  \/ /\ Throw(h, <<>>, "taskException")
            /\ UNCHANGED effects
         \/ /\ Remove(h, <<"taskException">>)
            /\ effects' = Bump(m, "taskException", 1)
  /\ UNCHANGED <<task, now, ops, delivered, driverVars>>

\* The terminal path: await dependencyTracker.resolveTask(..., 'exception'),
\* await publisher.taskException(...), then remove().
TerminalPath(h) ==
  /\ hs[h].pc = "terminal"
  /\ LET m == hs[h].msg
     IN  \/ /\ Throw(h, <<>>, "resolveTask")
            /\ UNCHANGED effects
         \/ /\ Throw(h, <<"resolveTask">>, "taskException")
            /\ effects' = Bump(m, "resolveTask", 1)
         \/ /\ Remove(h, <<"resolveTask", "taskException">>)
            /\ effects' = [effects EXCEPT ![m].resolveTask = @ + 1,
                                          ![m].taskException = @ + 1]
  /\ UNCHANGED <<task, now, ops, delivered, driverVars>>

Next ==
  \/ ClaimTask
  \/ \E r \in RunIds : ReclaimTask(r)
  \/ \E r \in RunIds : ResolveRun(r)
  \/ AppendRun
  \/ Tick
  \/ \E h \in Handlers, m \in Msgs : Deliver(h, m)
  \/ \E h \in Handlers : Query(h)
  \/ \E h \in Handlers : QueryUnconditional(h)
  \/ \E h \in Handlers : ReportMismatch(h)
  \/ \E h \in Handlers : Modify(h)
  \/ \E h \in Handlers : Reload(h)
  \/ \E h \in Handlers : Acknowledge(h)
  \/ \E h \in Handlers : RetryPath(h)
  \/ \E h \in Handlers : TerminalPath(h)

Spec == Init /\ [][Next]_vars

\* ------------------------------------------- redelivery without an end, fairly
\* The store, the queues, the publisher and the dependency tracker may fail
\* while the first MaxDeliveries deliveries are made, and not after that.
StoppedFailing == delivered = MaxDeliveries

\* A message that was not removed becomes visible again and is handed to
\* handleMessage, once no invocation is working on it any more.
Redeliver(h, m) ==
  /\ StoppedFailing
  /\ Free(h)
  /\ \A g \in Handlers : g < h => ~Free(g)
  /\ m \in queue
  /\ \A g \in Handlers : hs[g].msg = m => Free(g)
  /\ hs' = [hs EXCEPT ![h] = [IdleHandler EXCEPT !.pc = "query", !.msg = m,
                                                 !.late = (task.deadline <= now)]]
  /\ UNCHANGED <<task, now, queue, effects, ops, delivered, driverVars>>

\* One step of invocation h of handleMessage; it does not fail once the
\* collaborators have stopped failing.
Handle(h) ==
  /\ \/ Query(h)
     \/ QueryUnconditional(h)
     \/ ReportMismatch(h)
     \/ Modify(h)
     \/ Reload(h)
     \/ Acknowledge(h)
     \/ RetryPath(h)
     \/ TerminalPath(h)
  /\ StoppedFailing => hs'[h].pc # "failed"

NextLive ==
  \/ ClaimTask
  \/ \E r \in RunIds : ReclaimTask(r)
  \/ \E r \in RunIds : ResolveRun(r)
  \/ AppendRun
  \/ Tick
  \/ \E h \in Handlers, m \in Msgs : Deliver(h, m)
  \/ \E h \in Handlers, m \in Msgs : Redeliver(h, m)
  \/ \E h \in Handlers : Handle(h)

\* Every invocation goes on, and messages of the claim queue keep being handed
\* out while there are any.
SpecLive ==
  /\ Init /\ [][NextLive]_vars
  /\ \A h \in Handlers : WF_vars(Handle(h))
  /\ WF_vars(\E h \in Handlers, m \in Msgs : Deliver(h, m) \/ Redeliver(h, m))

\* ------------------------------------------------------------------ the driver
\* The handler given to Iterate: `parallelism` poll loops are started.
StartIteration ==
  /\ iter.phase = "waiting"
  /\ iter.failed < MaxFailed
  /\ iter' = [iter EXCEPT !.phase = "running", !.polls = [i \in Loops |-> "polling"]]
  /\ UNCHANGED <<failures, alerts, exited, resolverVars, poller>>

\* poll() resolves: failures of handleMessage were caught and counted in it.
PollResolves(i) ==
  /\ iter.phase = "running"
  /\ iter.polls[i] = "polling"
  /\ iter' = [iter EXCEPT !.polls[i] = "resolved"]
  /\ UNCHANGED <<failures, alerts, exited, resolverVars, poller>>

\* poll() rejects: pollClaimQueue() failed.
PollRejects(i) ==
  /\ iter.phase = "running"
  /\ iter.polls[i] = "polling"
  /\ iter' = [iter EXCEPT !.polls[i] = "rejected"]
  /\ UNCHANGED <<failures, alerts, exited, resolverVars, poller>>

\* Iterate: Promise.all of the poll loops resolved; the failures start anew.
IterationSucceeds ==
  /\ iter.phase = "running"
  /\ \A i \in Loops : iter.polls[i] = "resolved"
  /\ iter' = [iter EXCEPT !.phase = "waiting", !.polls = [i \in Loops |-> "none"]]
  /\ failures' = 0
  /\ UNCHANGED <<alerts, exited, resolverVars, poller>>

\* Iterate: a poll loop rejected, or maxIterationTime passed with a loop still
\* polling; after maxFailures failures in a row 'error' is emitted.
IterationFails ==
  /\ iter.phase = "running"
  /\ \E i \in Loops : iter.polls[i] \in {"rejected", "polling"}
  /\ failures' = failures + 1
  /\ iter' = [iter EXCEPT
       !.phase = IF failures + 1 >= maxFailures THEN "error" ELSE "waiting",
       !.polls = [i \in Loops |-> "none"],
       !.failed = @ + 1]
  /\ UNCHANGED <<alerts, exited, resolverVars, poller>>

\* Mutant: the alert without process.exit(1)
OnErrorNoExit ==
  /\ iter.phase = "error"
  /\ alerts' = alerts + 1
  /\ iter' = [iter EXCEPT !.phase = "stopped"]
  /\ UNCHANGED <<failures, exited, resolverVars, poller>>

\* this.iterator.on('error', ...): alert, and process.exit(1)
OnError ==
  /\ iter.phase = "error"
  /\ alerts' = alerts + 1
  /\ exited' = TRUE
  /\ iter' = [iter EXCEPT !.phase = "stopped"]
  /\ UNCHANGED <<failures, resolverVars, poller>>

NextDriver ==
  \/ StartIteration
  \/ \E i \in Loops : PollResolves(i)
  \/ \E i \in Loops : PollRejects(i)
  \/ IterationSucceeds
  \/ IterationFails
  \/ OnError

SpecDriver == Init /\ [][NextDriver]_vars

\* ---------------------------------------------------------------------- poll()
\* let messages = await this.queueService.pollClaimQueue(); let failed = 0;
\* then handleMessage is started for every message.  pollClaimQueue may reject,
\* and poll() with it.
PollClaimQueue ==
  /\ poller.phase \in {"idle", "resolved", "rejected"}
  /\ poller.polls < MaxPolls
  /\ \/ poller' = [poller EXCEPT !.phase = "rejected", !.messages = <<>>,
                                  !.failed = 0, !.warnings = 0,
                                  !.polls = @ + 1, !.rejects = @ + 1]
     \/ \E n \in 0..MaxBatch :
          poller' = [poller EXCEPT !.phase = "handling",
                                   !.messages = [i \in 1..n |-> "handling"],
                                   !.failed = 0, !.warnings = 0,
                                   !.polls = @ + 1]
  /\ UNCHANGED <<resolverVars, iter, failures, alerts, exited>>

\* await this.handleMessage(message) returned
HandleMessageReturns(i) ==
  /\ poller.phase = "handling"
  /\ i \in 1..Len(poller.messages)
  /\ poller.messages[i] = "handling"
  /\ poller' = [poller EXCEPT !.messages[i] = "handled"]
  /\ UNCHANGED <<resolverVars, iter, failures, alerts, exited>>

\* Mutant: handleMessage without the try/catch around it; Promise.all, and
\* poll() with it, rejects with the first failure
HandleMessageThrowsUncaught(i) ==
  /\ poller.phase = "handling"
  /\ i \in 1..Len(poller.messages)
  /\ poller.messages[i] = "handling"
  /\ poller' = [poller EXCEPT !.messages[i] = "threw", !.phase = "rejected",
                               !.rejects = @ + 1]
  /\ UNCHANGED <<resolverVars, iter, failures, alerts, exited>>

\* await this.handleMessage(message) threw: catch (err) { failed += 1;
\* this.monitor.reportError(err, 'warning'); }
HandleMessageThrows(i) ==
  /\ poller.phase = "handling"
  /\ i \in 1..Len(poller.messages)
  /\ poller.messages[i] = "handling"
  /\ poller' = [poller EXCEPT !.messages[i] = "threw", !.failed = @ + 1,
                               !.warnings = @ + 1]
  /\ UNCHANGED <<resolverVars, iter, failures, alerts, exited>>

\* Promise.all resolved: this.monitor.log.azureQueuePoll({messages:
\* messages.length, failed, resolver: 'claim'}), and poll() resolves.
AzureQueuePoll ==
  /\ poller.phase = "handling"
  /\ \A i \in 1..Len(poller.messages) : poller.messages[i] # "handling"
  /\ poller' = [poller EXCEPT
       !.phase = "resolved",
       !.logs = Append(@, [messages |-> Len(poller.messages),
                           failed |-> poller.failed])]
  /\ UNCHANGED <<resolverVars, iter, failures, alerts, exited>>

NextPoll ==
  \/ PollClaimQueue
  \/ \E i \in 1..MaxBatch : HandleMessageReturns(i)
  \/ \E i \in 1..MaxBatch : HandleMessageThrows(i)
  \/ AzureQueuePoll

SpecPoll == Init /\ [][NextPoll]_vars

\* ------------------------------------------------------------------ properties
SideEffects == {"putPendingMessage", "taskPending", "resolveTask", "taskException"}
Notifications == {"taskPending", "taskException"}

Made(h, calls) == \E i \in 1..Len(hs[h].calls) : hs[h].calls[i] \in calls
Removes(h) == Cardinality({i \in 1..Len(hs[h].calls) : hs[h].calls[i] = "remove"})

RECURSIVE Total(_, _)
Total(field, S) ==
  IF S = {} THEN 0
  ELSE LET m == CHOOSE x \in S : TRUE
       IN  effects[m][field] + Total(field, S \ {m})

\* C1: for every advisory triple, taskException is published for it at most
\* once, whatever the number of deliveries and of concurrent invocations.
C1_ExceptionAtMostOnce ==
  \A m \in Msgs : effects[m].taskException <= 1

\* C2: an invocation of handleMessage that made a side effect (pending message,
\* taskPending, resolveTask, taskException) is one whose own task.modify wrote
\* the transition running -> exception/claim-expired.
C2_OnlyTheOwnerEmits ==
  \A h \in Handlers : Made(h, SideEffects) => hs[h].owner

\* C3: for every advisory triple at most one retry run is appended on its
\* behalf, and retriesLeft is decremented at most once for it.
C3_OneRetryPerTriple ==
  \A m \in Msgs : effects[m].retryRuns <= 1 /\ effects[m].decrements <= 1

\* C3 witness: two invocations for one triple have both gone through
\* task.modify, and one retry run was appended for the triple.
C3_Witness ==
  \E m \in Msgs :
    /\ effects[m].retryRuns = 1
    /\ effects[m].decrements = 1
    /\ \A h \in Handlers : hs[h].msg = m /\ hs[h].pc = "done"

\* C4: an invocation during which the run was reclaimed between the load and
\* the end of task.modify writes no transition and makes no side effect, and
\* when it returns it has removed the message.
C4_ReclaimedIsNoOp ==
  \A h \in Handlers :
    hs[h].reclaimed =>
      /\ ~hs[h].owner
      /\ ~Made(h, SideEffects)
      /\ (hs[h].pc = "done" => Removes(h) = 1)

\* C5: an invocation for a message handled at or after the deadline of the
\* task resolves nothing as claim-expired and publishes no pending and no
\* exception notification, and when it returns it has removed the message.
C5_DeadlineDominance ==
  \A h \in Handlers :
    hs[h].late =>
      /\ ~hs[h].owner
      /\ ~Made(h, Notifications)
      /\ (hs[h].pc = "done" => Removes(h) = 1)

\* C6: the retry runs appended by the resolver are at most the retries the
\* task started with, and retriesLeft is never negative.
C6_RetryBudget ==
  /\ Total("retryRuns", Msgs) <= task.retries
  /\ task.retriesLeft >= 0

\* C6 witness: the budget is used up, and a later run was resolved
\* claim-expired without a retry.
C6_Witness ==
  /\ task.retries > 0
  /\ Total("retryRuns", Msgs) = task.retries
  /\ task.retriesLeft = 0
  /\ IsClaimExpired(task, Len(task.runs) - 1)

\* C7: an invocation that failed in query, modify, reportError, the enqueue, a
\* publish or the dependency tracker has not called remove(); an invocation
\* that returned has called remove() exactly once.
C7_AckHygiene ==
  \A h \in Handlers :
    /\ (hs[h].pc = "failed" /\ hs[h].err # "remove" => Removes(h) = 0)
    /\ (hs[h].pc = "done" => Removes(h) = 1)
    /\ Removes(h) <= 1

\* C7 witness: one invocation failed in taskPending after the pending message
\* was put, without remove(); the other returned on the terminal path.
C7_Witness ==
  \E h \in Handlers, g \in Handlers :
    /\ hs[h].pc = "failed" /\ hs[h].err = "taskPending"
    /\ Made(h, {"putPendingMessage"})
    /\ hs[g].pc = "done" /\ Made(g, {"taskException"})

\* C8: the process exits exactly when maxFailures iterations failed in a row,
\* with exactly one alert; otherwise there is no alert and no exit.
C8_FatalAfterMaxFailures ==
  /\ alerts <= 1
  /\ (exited <=> alerts = 1)
  /\ (exited => failures = maxFailures)
  /\ (failures >= maxFailures => iter.phase \in {"error", "stopped"})
  /\ (iter.phase = "stopped" => exited)

\* C8 witness: the process has exited after failures that a success interrupted
\* before.
C8_Witness ==
  /\ exited
  /\ alerts = 1
  /\ iter.failed > maxFailures

\* C9: task.takenUntil is the takenUntil of the running run if there is one,
\* and the cleared value otherwise.
C9_TakenUntilMirror ==
  /\ Cardinality(Running(task)) <= 1
  /\ \A r \in Running(task) : task.takenUntil = Run(task, r).takenUntil
  /\ (Running(task) = {} => task.takenUntil = 0)

\* C10: a step of the resolver that appends a retry run for a triple resolves
\* the last run, with retriesLeft > 0 before the step, and the retry run is the
\* new last run, at index runId + 1.
C10_RetryOnlyAfterLastRun ==
  [][\A m \in Msgs :
       effects'[m].retryRuns > effects[m].retryRuns =>
         /\ m.runId = Len(task.runs) - 1
         /\ Run(task, m.runId).state = "running"
         /\ task.retriesLeft > 0
         /\ task'.retriesLeft = task.retriesLeft - 1
         /\ IsClaimExpired(task', m.runId)
         /\ Len(task'.runs) - 1 = m.runId + 1
         /\ Run(task', m.runId + 1) = NewRun("retry")]_vars

\* C10 witness: a run resolved claim-expired is followed by the retry run that
\* was appended for its triple.
C10_Witness ==
  \E r \in RunIds :
    /\ IsClaimExpired(task, r)
    /\ HasRun(task, r + 1)
    /\ Run(task, r + 1).reasonCreated = "retry"
    /\ \E m \in Msgs : m.runId = r /\ effects[m].retryRuns = 1

\* --------------------------------------------------------------- run states
Terminal == {"completed", "failed", "exception"}

\* A step of the resolver: the other actors and the clock each use an operation.
ResolverStep == ops' = ops

\* C11: no run is ever removed; a run that is completed, failed or exception
\* keeps its state in every step; and a step of the resolver changes a run only
\* from running to exception, so it changes no terminal and no pending run.
C11_MonotonicRuns ==
  [][/\ Len(task'.runs) >= Len(task.runs)
     /\ \A i \in 1..Len(task.runs) :
          /\ task.runs[i].state \in Terminal =>
               task'.runs[i].state = task.runs[i].state
          /\ ResolverStep /\ task'.runs[i] # task.runs[i] =>
               /\ task.runs[i].state = "running"
               /\ task'.runs[i].state = "exception"]_vars

\* C11 witness: one invocation wrote running -> exception/claim-expired; a
\* later one for the same message went through task.modify and on to the end
\* without writing, and the run is still exception/claim-expired.
C11_Witness ==
  \E h \in Handlers, g \in Handlers :
    /\ hs[h].msg = hs[g].msg
    /\ Made(h, {"modify"})
    /\ hs[g].pc = "done"
    /\ Made(g, SideEffects) /\ ~Made(g, {"modify"})
    /\ IsClaimExpired(task, hs[g].msg.runId)

\* ------------------------------------------------------ one invocation, alone
\* Invocation h is about to run task.modify for its message (T, r, t); no
\* other actor changed the task since h loaded it; run r is the last run and
\* is running with takenUntil = t; task.takenUntil = t; the deadline is in the
\* future.
StandardExpiration(h) ==
  LET m == hs[h].msg
  IN  /\ hs[h].pc = "modify"
      /\ hs[h].task = task
      /\ Len(task.runs) - 1 = m.runId
      /\ Run(task, m.runId).state = "running"
      /\ Run(task, m.runId).takenUntil = m.takenUntil
      /\ task.takenUntil = m.takenUntil
      /\ now < task.deadline

\* task.modify of h returned in this step
ModifyReturns(h) == hs[h].pc = "modify" /\ hs'[h].pc \notin {"modify", "reload", "failed"}

\* h made exactly the calls `made` in this step, counted for its message
MadeInStep(h, made) ==
  /\ hs'[h].calls = hs[h].calls \o made
  /\ \A f \in SideEffects :
       effects'[hs[h].msg][f] =
         effects[hs[h].msg][f] + (IF \E i \in 1..Len(made) : made[i] = f THEN 1 ELSE 0)

\* C12: standard expiration with retriesLeft = k > 0, no other actor and no
\* failure: task.modify resolves run r exception/claim-expired, appends the
\* pending retry run r + 1 and leaves retriesLeft = k - 1; the invocation then
\* puts the pending message, publishes taskPending, makes no call of the
\* dependency tracker and none of taskException, and removes the message.
C12_ExpirationWithRetry ==
  [][\A h \in Handlers :
       LET r == hs[h].msg.runId
       IN  /\ StandardExpiration(h) /\ task.retriesLeft > 0 /\ ModifyReturns(h) =>
                /\ IsClaimExpired(task', r)
                /\ Len(task'.runs) = Len(task.runs) + 1
                /\ Run(task', r + 1) = NewRun("retry")
                /\ task'.retriesLeft = task.retriesLeft - 1
                /\ hs'[h].pc = "retry"
           /\ hs[h].pc = "retry" /\ hs'[h].pc = "done" =>
                /\ MadeInStep(h, <<"putPendingMessage", "taskPending", "remove">>)
                /\ hs[h].msg \notin queue']_vars

\* C12 witness: the only delivery there was, of the message of the only claim,
\* ended on the retry path.
C12_Witness ==
  /\ ops = 1 /\ delivered = 1
  /\ hs[1].pc = "done"
  /\ hs[1].calls = <<"modify", "putPendingMessage", "taskPending", "remove">>
  /\ IsClaimExpired(task, 0)
  /\ task.runs[2] = NewRun("retry")
  /\ task.retriesLeft = task.retries - 1
  /\ queue = {}

\* C13: standard expiration with retriesLeft = 0, no other actor and no
\* failure: task.modify resolves run r exception/claim-expired, appends no run
\* and leaves retriesLeft = 0; the invocation then calls the dependency
\* tracker, publishes taskException, puts no pending message and publishes no
\* taskPending, and removes the message.
C13_ExpirationWithoutRetry ==
  [][\A h \in Handlers :
       LET r == hs[h].msg.runId
       IN  /\ StandardExpiration(h) /\ task.retriesLeft = 0 /\ ModifyReturns(h) =>
                /\ IsClaimExpired(task', r)
                /\ Len(task'.runs) = Len(task.runs)
                /\ task'.retriesLeft = 0
                /\ hs'[h].pc = "terminal"
           /\ hs[h].pc = "terminal" /\ hs'[h].pc = "done" =>
                /\ MadeInStep(h, <<"resolveTask", "taskException", "remove">>)
                /\ hs[h].msg \notin queue']_vars

\* C13 witness: the only delivery there was, for a task without retries, ended
\* on the terminal path.
C13_Witness ==
  /\ ops = 1 /\ delivered = 1
  /\ task.retries = 0
  /\ hs[1].pc = "done"
  /\ hs[1].calls = <<"modify", "resolveTask", "taskException", "remove">>
  /\ IsClaimExpired(task, 0)
  /\ Len(task.runs) = 1
  /\ task.retriesLeft = 0
  /\ queue = {}

\* C14: an invocation whose conditional load finds no row (task.takenUntil is
\* not the takenUntil of the message) goes straight to remove(): no
\* task.modify, no call of the publisher, the pending queue, the dependency
\* tracker or reportError, and the task is as it was; remove() then deletes the
\* message.
C14_NoRowIsAcknowledged ==
  [][\A h \in Handlers :
       /\ /\ hs[h].pc = "query"
          /\ ~QueryMatches(task, hs[h].msg.takenUntil)
          /\ hs'[h].pc \notin {"query", "failed", "report"}
          => /\ hs'[h].pc = "remove"
             /\ hs'[h].calls = <<>>
             /\ task' = task /\ effects' = effects
       /\ hs[h].pc = "remove" /\ hs[h].calls = <<>> /\ hs'[h].pc = "done" =>
             /\ hs'[h].calls = <<"remove">>
             /\ hs'[h].reported = <<>>
             /\ hs[h].msg \notin queue'
             /\ task' = task /\ effects' = effects]_vars

\* C14 witness: the run was reclaimed before the message of the first claim
\* was looked up; its invocation found no row and removed the message.
C14_Witness ==
  \E h \in Handlers :
    /\ hs[h].msg = [runId |-> 0, takenUntil |-> 1]
    /\ hs[h].pc = "done" /\ hs[h].calls = <<"remove">> /\ ~hs[h].reclaimed
    /\ Run(task, 0).state = "running" /\ task.takenUntil = 2
    /\ hs[h].msg \notin queue

\* C15: an invocation that is given an entity whose takenUntil is not the one
\* of the message reports an error carrying both timestamps and removes the
\* message; it does not call task.modify, the publisher, the pending queue or
\* the dependency tracker, and the task is as it was.
C15_MismatchIsReported ==
  [][\A h \in Handlers :
       /\ /\ hs[h].pc = "query"
          /\ hs'[h].task # NoTask
          /\ hs'[h].task.takenUntil # hs[h].msg.takenUntil
          => /\ hs'[h].pc = "report"
             /\ hs'[h].calls = <<>>
             /\ task' = task /\ effects' = effects
       /\ hs[h].pc = "report" /\ hs'[h].pc = "done" =>
             /\ hs'[h].reported = <<hs[h].task.takenUntil, hs[h].msg.takenUntil>>
             /\ hs'[h].calls = <<"reportError", "remove">>
             /\ hs[h].msg \notin queue'
             /\ task' = task /\ effects' = effects]_vars

\* C15 witness: an invocation has reported two different timestamps and
\* removed its message.
C15_Witness ==
  \E h \in Handlers :
    /\ hs[h].pc = "done"
    /\ Len(hs[h].reported) = 2
    /\ hs[h].reported[1] # hs[h].reported[2]
    /\ hs[h].reported[2] = hs[h].msg.takenUntil
    /\ hs[h].calls = <<"reportError", "remove">>
    /\ hs[h].msg \notin queue

\* ---------------------------------------------------------------------- poll()
Threw == {i \in 1..Len(poller.messages) : poller.messages[i] = "threw"}

\* C16: in poll(), `failed` and the warnings reported count the invocations of
\* handleMessage that threw; poll() rejects only when pollClaimQueue() rejected,
\* never for a failure of handleMessage; poll() resolves once every message of
\* the batch has been handled or has thrown, and then one record has been
\* logged for the batch, with messages = the size of the batch and failed = the
\* number of invocations that threw.
C16_FailureIsolation ==
  /\ poller.failed = Cardinality(Threw)
  /\ poller.warnings = Cardinality(Threw)
  /\ (poller.phase = "rejected" => poller.messages = <<>>)
  /\ Len(poller.logs) =
       poller.polls - poller.rejects - (IF poller.phase = "handling" THEN 1 ELSE 0)
  /\ poller.phase = "resolved" =>
       /\ \A i \in 1..Len(poller.messages) : poller.messages[i] \in {"handled", "threw"}
       /\ poller.logs[Len(poller.logs)] =
            [messages |-> Len(poller.messages), failed |-> Cardinality(Threw)]

\* C16 witness: poll() resolved for a batch of three messages in which the
\* first and the last invocation threw and the one between them returned.
C16_Witness ==
  /\ poller.phase = "resolved"
  /\ poller.messages = <<"threw", "handled", "threw">>
  /\ poller.logs = <<[messages |-> 3, failed |-> 2]>>
  /\ poller.warnings = 2

\* ------------------------------------------------------------------ redelivery
\* What was published for the advisory triple m
Notified(m) == effects[m].taskPending + effects[m].taskException

\* The message m of the first claim was delivered twice, task.modify failed in
\* one of the two invocations and the other one returned, while nothing else
\* happened to the task than that claim: the task was written once by the
\* resolver, run 0 is exception/claim-expired with at most the one retry run
\* after it, one notification was published, of the path taken, and the message
\* is removed.
RecoveredOnce(m) ==
  /\ ops = 1 /\ delivered = 2
  /\ effects[m].modifyFailed = 1
  /\ \E h \in Handlers : hs[h].msg = m /\ hs[h].pc = "done"
  => /\ task.etag = 3
     /\ IsClaimExpired(task, m.runId)
     /\ effects[m].retryRuns = (IF task.retries > 0 THEN 1 ELSE 0)
     /\ task.retriesLeft = task.retries - effects[m].retryRuns
     /\ Notified(m) = 1
     /\ effects[m].taskPending = effects[m].retryRuns
     /\ effects[m].putPendingMessage = effects[m].taskPending
     /\ effects[m].resolveTask = effects[m].taskException
     /\ m \notin queue

\* C17: a failure of task.modify ends the invocation without remove() and
\* without a change of the task; and when the message is then handled again,
\* successfully, both attempts together have made one transition running ->
\* exception/claim-expired and one notification.
C17_RecoveryAfterModifyFailure ==
  [][/\ \A h \in Handlers :
          /\ hs[h].pc \in {"modify", "reload"}
          /\ hs'[h] # hs[h]
          /\ effects'[hs[h].msg].modifyFailed > effects[hs[h].msg].modifyFailed
          => /\ hs'[h].pc = "failed"
             /\ hs'[h].calls = hs[h].calls
             /\ task' = task /\ queue' = queue
             /\ Notified(hs[h].msg)' = Notified(hs[h].msg)
     /\ \A m \in Msgs : RecoveredOnce(m)']_vars

\* C17 witness: task.modify failed in the first invocation for the message of
\* the only claim; the second delivery went to the same invocation slot, and
\* it resolved the run and returned.
C17_Witness ==
  LET m == [runId |-> 0, takenUntil |-> 1]
  IN  /\ ops = 1 /\ delivered = 2
      /\ effects[m].modifyFailed = 1
      /\ hs[1].msg = m /\ hs[1].pc = "done" /\ Made(1, {"modify"})
      /\ hs[2].pc = "idle"
      /\ Notified(m) = 1
      /\ m \notin queue

\* ------------------------------------------------------- a run that is not last
\* C18: when task.modify returns for an invocation whose run r is running with
\* the takenUntil of the message, before the deadline, and is not the last run,
\* the modifier has reported an error and has written run r as
\* exception/claim-expired and nothing else: no run is appended and retriesLeft
\* is as before; the invocation does not fail in this step, and when it goes on
\* to its end without a failure it removes the message.
C18_NotLastRunIsReported ==
  [][\A h \in Handlers :
       LET r == hs[h].msg.runId
       IN  /\ /\ hs[h].pc = "modify" /\ hs[h].task = task
              /\ Run(task, r).state = "running"
              /\ Run(task, r).takenUntil = hs[h].msg.takenUntil
              /\ now < task.deadline
              /\ Len(task.runs) - 1 # r
              /\ ModifyReturns(h)
              => /\ hs'[h].calls = hs[h].calls \o <<"reportError", "modify">>
                 /\ task'.runs = [task.runs EXCEPT ![r + 1] = Run(task', r)]
                 /\ IsClaimExpired(task', r)
                 /\ task'.retriesLeft = task.retriesLeft
                 /\ effects'[hs[h].msg].retryRuns = effects[hs[h].msg].retryRuns
                 /\ hs'[h].pc \in {"remove", "terminal"}
           /\ /\ hs[h].pc \in {"remove", "terminal"}
              /\ Made(h, {"reportError"})
              /\ hs'[h].pc = "done"
              => /\ hs'[h].calls[Len(hs'[h].calls)] = "remove"
                 /\ hs[h].msg \notin queue']_vars

\* C18 witness: run 0 was running when another run was appended after it; the
\* modifier reported the error and resolved run 0, retriesLeft is untouched,
\* and the invocation returned.
C18_Witness ==
  \E h \in Handlers :
    /\ hs[h].pc = "done"
    /\ Made(h, {"reportError"}) /\ Made(h, {"modify"})
    /\ IsClaimExpired(task, 0)
    /\ Len(task.runs) = 2 /\ task.runs[2].reasonCreated = "rerun"
    /\ task.retries > 0 /\ task.retriesLeft = task.retries
    /\ hs[h].msg \notin queue

\* ------------------------------------------------- the check after task.modify
\* The entity h holds when its task.modify returns
AfterTaskModify(h) == Modifier(hs[h].task, hs[h].msg.runId, hs[h].msg.takenUntil, now)

\* C19: when task.modify returns with an entity in which run runId is absent,
\* or is not exception/claim-expired, or is followed by more than one run, the
\* invocation goes to remove() and calls nothing else: no pending message, no
\* taskPending, no taskException, no call of the dependency tracker and no
\* reportError; remove() then deletes the message.
C19_NotOwnerIsSilent ==
  [][\A h \in Handlers :
       /\ /\ ModifyReturns(h)
          /\ ~OwnsTransition(AfterTaskModify(h), hs[h].msg.runId)
          => /\ hs'[h].pc = "remove"
             /\ \A f \in SideEffects : effects'[hs[h].msg][f] = effects[hs[h].msg][f]
       /\ hs[h].pc = "remove" /\ hs'[h].pc = "done" =>
             /\ hs'[h].calls = hs[h].calls \o <<"remove">>
             /\ hs'[h].reported = <<>>
             /\ effects' = effects
             /\ hs[h].msg \notin queue']_vars

\* C19 witness: the run was reclaimed while the invocation was in task.modify;
\* the modifier left the run running, and the invocation removed the message
\* and made no other call.
C19_Witness ==
  \E h \in Handlers :
    /\ hs[h].reclaimed
    /\ hs[h].pc = "done"
    /\ hs[h].calls = <<"remove">>
    /\ Run(task, hs[h].msg.runId).state = "running"
    /\ hs[h].msg \notin queue

\* ------------------------------------------- redelivery after a failed fan-out
\* The stored task is as the resolver left it when it resolved the run of
\* message m: the run is exception/claim-expired, takenUntil of the run and of
\* the task is still the one of m, and at most one run follows.
LeftResolved(m) ==
  /\ IsClaimExpired(task, m.runId)
  /\ Run(task, m.runId).takenUntil = m.takenUntil
  /\ task.takenUntil = m.takenUntil
  /\ Len(task.runs) - 1 <= m.runId + 1

\* C20: the write of the transition running -> exception/claim-expired by an
\* invocation that goes on to the fan-out leaves the task as a trigger for its
\* message; a failure in the fan-out, before remove(), leaves the message in
\* the queue and the task as it was; and an invocation for the same message
\* that finds the task so, unchanged by others while it runs, matches the
\* conditional load, writes nothing, and on returning has published
\* taskPending, if the retry run is there, or taskException.
C20_RedeliveryEmits ==
  [][\A h \in Handlers :
       LET m == hs[h].msg
       IN  /\ /\ hs[h].pc = "modify" /\ task' # task
              /\ hs'[h].pc \in {"retry", "terminal"}
              => LeftResolved(m)'
           /\ /\ hs[h].pc \in {"retry", "terminal"}
              /\ hs'[h].pc = "failed" /\ hs'[h].err # "remove"
              => /\ queue' = queue
                 /\ task' = task
           /\ /\ hs[h].pc = "query" /\ LeftResolved(m)
              /\ hs'[h].pc \notin {"query", "failed"}
              => /\ hs'[h].pc = "modify"
                 /\ hs'[h].task = task
           /\ /\ hs[h].pc = "modify" /\ hs[h].task = task /\ LeftResolved(m)
              /\ ModifyReturns(h)
              => /\ task' = task
                 /\ hs'[h].pc = (IF IsRetryPath(task, m.runId) THEN "retry" ELSE "terminal")
           /\ hs[h].pc = "retry" /\ hs'[h].pc = "done" =>
                 effects'[m].taskPending = effects[m].taskPending + 1
           /\ hs[h].pc = "terminal" /\ hs'[h].pc = "done" =>
                 effects'[m].taskException = effects[m].taskException + 1]_vars

\* C20 witness: the message of the only claim was delivered twice, to one
\* invocation after the other; the resolver wrote the task once, in the first
\* one, which failed before remove() without a notification; the second one
\* wrote nothing, published the one notification there is, and removed the
\* message.
C20_Witness ==
  LET m == [runId |-> 0, takenUntil |-> 1]
  IN  /\ ops = 1 /\ delivered = 2
      /\ hs[2].pc = "idle"
      /\ hs[1].msg = m /\ hs[1].pc = "done"
      /\ ~Made(1, {"modify"}) /\ Made(1, Notifications)
      /\ task.etag = 3 /\ LeftResolved(m)
      /\ effects[m].modifyFailed = 0
      /\ Notified(m) = 1
      /\ m \notin queue

\* ------------------------------------------------------------ order of calls
\* Call `a` was completed by h before position i of its history
Before(h, a, i) == \E j \in 1..(i - 1) : hs[h].calls[j] = a

\* C21: in the history of every invocation, remove() on the retry path comes
\* after the completed putPendingMessage and the completed taskPending;
\* taskException comes after the completed resolveTask, and remove() on the
\* terminal path after taskException; the write of task.modify comes before
\* every enqueue, publish, dependency-tracker call and remove(); and whenever
\* an invocation has made one of these calls, the run is stored as
\* exception/claim-expired.
C21_AckOrdering ==
  \A h \in Handlers :
    /\ \A i \in 1..Len(hs[h].calls) :
         LET c == hs[h].calls[i]
         IN  /\ c = "remove" /\ Made(h, {"putPendingMessage", "taskPending"}) =>
                  Before(h, "putPendingMessage", i) /\ Before(h, "taskPending", i)
             /\ c = "remove" /\ Made(h, {"resolveTask", "taskException"}) =>
                  Before(h, "taskException", i)
             /\ c = "taskException" => Before(h, "resolveTask", i)
             /\ c = "modify" =>
                  \A j \in 1..(i - 1) : hs[h].calls[j] \notin SideEffects \cup {"remove"}
    /\ Made(h, SideEffects) => IsClaimExpired(task, hs[h].msg.runId)
    /\ hs[h].pc \in {"retry", "terminal"} => IsClaimExpired(task, hs[h].msg.runId)

\* C21 witness: one invocation wrote the transition, called the dependency
\* tracker and failed in taskException, without remove(); a later one for the
\* same message made the three calls of the terminal path in their order.
C21_Witness ==
  \E h \in Handlers, g \in Handlers :
    /\ hs[h].msg = hs[g].msg
    /\ hs[h].pc = "failed" /\ hs[h].err = "taskException"
    /\ hs[h].calls = <<"modify", "resolveTask">>
    /\ hs[g].pc = "done"
    /\ hs[g].calls = <<"resolveTask", "taskException", "remove">>

\* ------------------------------------------------------ frame of the modifier
\* The branches of the modifier that return before the run is updated
NoOpBranch(t, runId, takenUntil, nw) ==
  \/ ~HasRun(t, runId)
  \/ Run(t, runId).state # "running"
  \/ Run(t, runId).takenUntil # takenUntil
  \/ t.deadline <= nw

\* C22: a step of the resolver that changes the stored task is a task.modify
\* of an invocation for some run r, and it leaves task.takenUntil,
\* task.deadline and every run but run r as they were, adding at most one
\* run, at r + 1; and when the modifier of an invocation takes a branch that
\* returns at once (run absent, not running, another takenUntil, deadline
\* reached), the stored task is left as it was.
C22_ModifierFrame ==
  [][/\ ResolverStep /\ task' # task =>
          \E h \in Handlers :
            LET r == hs[h].msg.runId
            IN  /\ hs[h].pc = "modify" /\ hs'[h] # hs[h]
                /\ task'.takenUntil = task.takenUntil
                /\ task'.deadline = task.deadline
                /\ Len(task'.runs) \in {Len(task.runs), Len(task.runs) + 1}
                /\ Len(task'.runs) > Len(task.runs) => Len(task'.runs) - 1 = r + 1
                /\ \A i \in 1..Len(task.runs) :
                     i # r + 1 => task'.runs[i] = task.runs[i]
     /\ \A h \in Handlers :
          /\ ResolverStep
          /\ hs[h].pc = "modify" /\ hs'[h].pc # "modify"
          /\ NoOpBranch(hs[h].task, hs[h].msg.runId, hs[h].msg.takenUntil, now)
          => task' = task]_vars

\* C22 witness: the deadline was reached while the run was still claimed; the
\* invocation loaded the task, its modifier returned at once, and the run and
\* takenUntil of the task are as the claim left them.
C22_Witness ==
  \E h \in Handlers :
    /\ hs[h].late
    /\ hs[h].pc = "done" /\ hs[h].calls = <<"remove">>
    /\ ops = 2 /\ delivered = 1
    /\ Run(task, hs[h].msg.runId).state = "running"
    /\ Run(task, hs[h].msg.runId).takenUntil = hs[h].msg.takenUntil
    /\ task.takenUntil = hs[h].msg.takenUntil
    /\ task.etag = 2

\* ---------------------------------------------------------------- liveness
\* C23: every advisory message that was handed to handleMessage is removed
\* from the claim queue in the end, whatever the state of the task, when
\* unremoved messages are delivered again and the collaborators stop failing.
C23_EventuallyAcknowledged ==
  \A m \in Msgs :
    (\E h \in Handlers : hs[h].msg = m /\ ~Free(h)) ~> (m \notin queue)

\* C23 witness: task.modify failed for a message; the message was handled
\* again after the collaborators had stopped failing, and was removed; no
\* invocation is at work and the claim queue is empty.
C23_Witness ==
  \E h \in Handlers :
    /\ StoppedFailing
    /\ hs[h].pc = "done"
    /\ hs[h].msg \notin queue
    /\ \A g \in Handlers : Free(g)
    /\ queue = {}
    /\ effects[hs[h].msg].modifyFailed = 1
====
